---- MODULE Spec2Model ----
(***************************************************************************)
(* The message shapes of backend/schemas/health.py: three pydantic         *)
(* BaseModel subclasses, each declaring one required field annotated str.  *)
(* decode is BaseModel.model_validate (equally the keyword constructor),   *)
(* encode is BaseModel.model_dump, equality is BaseModel.__eq__ and an     *)
(* assignment is BaseModel.__setattr__, all with the default model         *)
(* configuration, since no class sets model_config: extra keys are         *)
(* ignored, str is validated in lax mode (numbers are not coerced), the    *)
(* models are not frozen and assignments are not validated.                *)
(*                                                                         *)
(* A text value is the sequence of its Unicode code points.  A record      *)
(* (a dict) is a function from key names to values.  The values of a       *)
(* record are the values a JSON document holds.                            *)
(***************************************************************************)
EXTENDS Integers, Sequences, FiniteSets, TLC

\* Number of requests handled side by side.
NumReq == 2
\* Longest text value drawn as an input.
MaxLen == 1

Req == 1..NumReq

\* A control character (NUL), a two-byte character (e with acute accent) and
\* a character outside the basic plane (an emoji); no surrogate code points.
CodePoints == {0, 233, 128512}

STR(s) == [kind |-> "str", v |-> s]
INT(n) == [kind |-> "int", v |-> <<n>>]
NULL == [kind |-> "null", v |-> <<>>]
LIST == [kind |-> "list", v |-> <<>>]

Texts == UNION {[1..k -> CodePoints] : k \in 0..MaxLen}
TextValues == {STR(s) : s \in Texts}
NonTextValues == {INT(123), NULL, LIST}
Values == TextValues \cup NonTextValues

IsText(x) == x.kind = "str"

Keys == {"text", "message", "extra"}
Records == UNION {[K -> Values] : K \in SUBSET Keys}

\* The values drawn by assignments: a text and a number.
AssignValues == {STR(<<233>>), INT(123)}
\* The records drawn by the side-by-side requests.
ParRecords == {[k \in {"text"} |-> x] : x \in AssignValues}

----------------------------------------------------------------------------
\* The declarations.  A field is required exactly when it has no default.

Field(ann) == [annotation |-> ann, required |-> TRUE, default |-> NULL]
FieldWithDefault(ann, d) == [annotation |-> ann, required |-> FALSE, default |-> d]

\* Declarations in which the field has a default.
PingResponseWithDefault ==
  [name |-> "PingResponse",
   model_fields |-> [message |-> FieldWithDefault("str", STR(<<>>))]]

EchoRequestWithDefault ==
  [name |-> "EchoRequest",
   model_fields |-> [text |-> FieldWithDefault("str", STR(<<>>))]]

PingResponse ==
  [name |-> "PingResponse", model_fields |-> [message |-> Field("str")]]

EchoRequest ==
  [name |-> "EchoRequest", model_fields |-> [text |-> Field("str")]]

EchoResponse ==
  [name |-> "EchoResponse", model_fields |-> [text |-> Field("str")]]

Shapes == {PingResponse, EchoRequest, EchoResponse}
ShapeNames == {c.name : c \in Shapes}
Class(n) == CHOOSE c \in Shapes : c.name = n

----------------------------------------------------------------------------
RECURSIVE Digits(_)
Digits(n) == IF n < 10 THEN <<48 + n>> ELSE Append(Digits(n \div 10), 48 + (n % 10))

Accept(x) == [ok |-> TRUE, value |-> x]
Reject(x) == [ok |-> FALSE, value |-> x]

\* A validator that turns numbers into their decimal text.
validate_field_coercing(ann, x) ==
  IF ann = "str"
  THEN IF IsText(x) THEN Accept(x)
       ELSE IF x.kind = "int" THEN Accept(STR(Digits(x.v[1]))) ELSE Reject(x)
  ELSE Accept(x)

\* Validation of one value against an annotation: str accepts a text value,
\* unchanged, and nothing else.
validate_field(ann, x) ==
  IF ann = "str"
  THEN IF IsText(x) THEN Accept(x) ELSE Reject(x)
  ELSE Accept(x)

\* The error entries of a validation: pydantic's loc is the field name, its
\* type "missing" is the reason missing and its type "string_type" is the
\* reason wrong_type.
field_errors(cls, data) ==
  {[field |-> f, reason |-> "missing"] :
     f \in {g \in DOMAIN cls.model_fields :
              g \notin DOMAIN data /\ cls.model_fields[g].required}}
  \cup
  {[field |-> f, reason |-> "wrong_type"] :
     f \in {g \in DOMAIN cls.model_fields :
              g \in DOMAIN data
              /\ ~validate_field(cls.model_fields[g].annotation, data[g]).ok}}

NoValue == [cls |-> "None", dict |-> <<>>]

\* A decode that keeps every key of the record (extra = "allow").
model_validate_allow_extra(cls, data) ==
  LET errs == field_errors(cls, data) IN
  IF errs = {}
  THEN [ok |-> TRUE, value |-> [cls |-> cls.name, dict |-> data], errors |-> {}]
  ELSE [ok |-> FALSE, value |-> NoValue, errors |-> errs]

\* decode: every declared field is validated; the instance holds the declared
\* fields only, whatever other keys the record has.
model_validate(cls, data) ==
  LET errs == field_errors(cls, data) IN
  IF errs = {}
  THEN [ok |-> TRUE,
        value |-> [cls |-> cls.name,
                   dict |-> [f \in DOMAIN cls.model_fields |->
                               IF f \in DOMAIN data
                               THEN validate_field(cls.model_fields[f].annotation,
                                                   data[f]).value
                               ELSE cls.model_fields[f].default]],
        errors |-> {}]
  ELSE [ok |-> FALSE, value |-> NoValue, errors |-> errs]

\* An encode that leaves out empty values.
model_dump_skip_empty(x) ==
  [f \in {g \in DOMAIN x.dict : x.dict[g] # STR(<<>>)} |-> x.dict[f]]

\* An encode that adds the class name under a key of its own.
model_dump_tagged(x) ==
  [f \in DOMAIN x.dict \cup {"type"} |->
     IF f \in DOMAIN x.dict THEN x.dict[f] ELSE STR(<<>>)]

\* encode: the instance's fields, as they are.
model_dump(x) == x.dict

\* Equality by identity, as of a class that defines no equality.
model_eq_identity(x, y) == x.id = y.id

\* Equality of two instances: same class, same fields.
model_eq(x, y) == x.cls = y.cls /\ x.dict = y.dict

\* Assignment to a declared field: stored unvalidated.
setattr(x, f, val) == [x EXCEPT !.dict = [@ EXCEPT ![f] = val]]

----------------------------------------------------------------------------
VARIABLES
  phase,   \* per request: "idle", "received", "decoded" or "failed"
  target,  \* per request: the name of the shape the request decodes into
  body,    \* per request: the record the request carries
  inst,    \* per request: the instance the request holds
  err,     \* per request: the error entries raised to the request's caller
  out,     \* per request: the output of the latest encode of its instance
  enc,     \* per request: "none", "fresh" (encoded, not assigned since) or "stale"
  cmp      \* the result of the comparison the latest step made: "equal" or
           \* "unequal"; "none" when the latest step was no comparison

vars == <<phase, target, body, inst, err, out, enc, cmp>>

NoInstance == [cls |-> "None", dict |-> <<>>, id |-> 0]
\* The object a request constructs; one is live per request at a time.
New(r, x) == [cls |-> x.cls, dict |-> x.dict, id |-> r]

\* One variable shared by all requests.
BindShared(f, r, x) == [q \in DOMAIN f |-> x]

\* Each request holds its instance in a variable of its own.
Bind(f, r, x) == [f EXCEPT ![r] = x]

Idle ==
  /\ phase = [r \in Req |-> "idle"]
  /\ target = [r \in Req |-> "EchoRequest"]
  /\ body = [r \in Req |-> <<>>]
  /\ inst = [r \in Req |-> NoInstance]
  /\ err = [r \in Req |-> {}]
  /\ out = [r \in Req |-> <<>>]
  /\ enc = [r \in Req |-> "none"]
  /\ cmp = "none"

Receive(r, n, rec) ==
  /\ phase' = [phase EXCEPT ![r] = "received"]
  /\ target' = [target EXCEPT ![r] = n]
  /\ body' = [body EXCEPT ![r] = rec]
  /\ inst' = Bind(inst, r, NoInstance)
  /\ err' = [err EXCEPT ![r] = {}]
  /\ out' = [out EXCEPT ![r] = <<>>]
  /\ enc' = [enc EXCEPT ![r] = "none"]
  /\ cmp' = "none"

Decode(r) ==
  /\ phase[r] # "idle"
  /\ LET res == model_validate(Class(target[r]), body[r]) IN
       /\ phase' = [phase EXCEPT ![r] = IF res.ok THEN "decoded" ELSE "failed"]
       /\ inst' = Bind(inst, r, IF res.ok THEN New(r, res.value) ELSE NoInstance)
       /\ err' = [err EXCEPT ![r] = res.errors]
  /\ out' = [out EXCEPT ![r] = <<>>]
  /\ enc' = [enc EXCEPT ![r] = "none"]
  /\ cmp' = "none"
  /\ UNCHANGED <<target, body>>

Encode(r) ==
  /\ phase[r] = "decoded"
  /\ out' = [out EXCEPT ![r] = model_dump(inst[r])]
  /\ enc' = [enc EXCEPT ![r] = "fresh"]
  /\ cmp' = "none"
  /\ UNCHANGED <<phase, target, body, inst, err>>

Assign(r, val) ==
  /\ phase[r] = "decoded"
  /\ \E f \in DOMAIN inst[r].dict :
       inst' = Bind(inst, r, setattr(inst[r], f, val))
  /\ enc' = [enc EXCEPT ![r] = IF enc[r] = "none" THEN "none" ELSE "stale"]
  /\ cmp' = "none"
  /\ UNCHANGED <<phase, target, body, err, out>>

Compare(a, b) ==
  /\ a # b
  /\ phase[a] = "decoded"
  /\ phase[b] = "decoded"
  /\ cmp' = IF model_eq(inst[a], inst[b]) THEN "equal" ELSE "unequal"
  /\ UNCHANGED <<phase, target, body, inst, err, out, enc>>

----------------------------------------------------------------------------
\* One request, its record and shape drawn from all records and shapes.
Init ==
  \E n \in ShapeNames, rec \in Records :
    /\ phase = [r \in Req |-> IF r = 1 THEN "received" ELSE "idle"]
    /\ target = [r \in Req |-> IF r = 1 THEN n ELSE "EchoRequest"]
    /\ body = [r \in Req |-> IF r = 1 THEN rec ELSE <<>>]
    /\ inst = [r \in Req |-> NoInstance]
    /\ err = [r \in Req |-> {}]
    /\ out = [r \in Req |-> <<>>]
    /\ enc = [r \in Req |-> "none"]
    /\ cmp = "none"

Next ==
  \E r \in Req :
    \/ Decode(r)
    \/ Encode(r)
    \/ \E val \in AssignValues : Assign(r, val)

Spec == Init /\ [][Next]_vars

\* Requests side by side, arriving over time.
NextPar ==
  \E r \in Req :
    \/ \E n \in ShapeNames, rec \in ParRecords : Receive(r, n, rec)
    \/ Decode(r)
    \/ Encode(r)
    \/ \E val \in AssignValues : Assign(r, val)
    \/ \E b \in Req : Compare(r, b)

SpecPar == Idle /\ [][NextPar]_vars

----------------------------------------------------------------------------
\* The required key of each shape, as the specification's table gives it.
KeyOf(n) == IF n = "PingResponse" THEN "message" ELSE "text"
Restrict(d, K) == [k \in DOMAIN d \cap K |-> d[k]]
Attempted(r) == phase[r] \in {"decoded", "failed"}
Touched(q) == inst'[q] # inst[q] \/ err'[q] # err[q] \/ out'[q] # out[q]
ReceiveStep(r) == phase'[r] = "received" /\ Receive(r, target'[r], body'[r])
DecodeStep(r) == body'[r] = body[r] /\ target'[r] = target[r] /\ Decode(r)
AssignStep(r) ==
  /\ phase[r] = "decoded"
  /\ phase'[r] = "decoded"
  /\ \E f \in DOMAIN inst[r].dict \cap DOMAIN inst'[r].dict :
       Assign(r, inst'[r].dict[f])
StepOf(r) == ReceiveStep(r) \/ DecodeStep(r) \/ Encode(r) \/ AssignStep(r)
HoldsText(r) == \A f \in DOMAIN inst[r].dict : IsText(inst[r].dict[f])

\* C1: round trip.  For each of the three shapes and every text value,
\* decoding the record that encode produced from an instance holding that
\* text succeeds and yields an instance equal to the original.
C1_RoundTrip ==
  \A r \in Req :
    (enc[r] = "fresh" /\ HoldsText(r)) =>
      LET again == model_validate(Class(inst[r].cls), out[r]) IN
        /\ again.ok
        /\ model_eq(again.value, inst[r])

C1_Witness ==
  \E r \in Req :
    /\ enc[r] = "fresh"
    /\ inst[r].cls = "PingResponse"
    /\ inst[r].dict = [message |-> STR(<<>>)]

\* C2: decoding into an EchoRequest a record whose "text" key holds a value
\* that is not text fails with the single error (text, wrong_type); no
\* instance is produced, so the value is not turned into a text.
C2_WrongType ==
  \A r \in Req :
    (/\ Attempted(r)
     /\ target[r] = "EchoRequest"
     /\ "text" \in DOMAIN body[r]
     /\ ~IsText(body[r]["text"])) =>
      /\ phase[r] = "failed"
      /\ err[r] = {[field |-> "text", reason |-> "wrong_type"]}
      /\ inst[r] = NoInstance

C2_Witness ==
  \E r \in Req :
    /\ phase[r] = "failed"
    /\ target[r] = "EchoRequest"
    /\ body[r] = [text |-> INT(123)]
    /\ err[r] = {[field |-> "text", reason |-> "wrong_type"]}

\* C3: decoding a record that lacks the shape's required key ("text" for
\* EchoRequest and EchoResponse, "message" for PingResponse) fails with the
\* single error (that key, missing) and produces no instance; no default
\* value lets the decode succeed.
C3_Missing ==
  \A r \in Req :
    (Attempted(r) /\ KeyOf(target[r]) \notin DOMAIN body[r]) =>
      /\ phase[r] = "failed"
      /\ err[r] = {[field |-> KeyOf(target[r]), reason |-> "missing"]}
      /\ inst[r] = NoInstance

C3_Witness ==
  \E r \in Req :
    /\ phase[r] = "failed"
    /\ target[r] = "PingResponse"
    /\ body[r] = <<>>
    /\ err[r] = {[field |-> "message", reason |-> "missing"]}

\* C4: encode returns a record with exactly one key, the shape's declared
\* field name, mapped to the instance's text value unchanged.
C4_EncodeShape ==
  \A r \in Req :
    (enc[r] = "fresh" /\ HoldsText(r)) =>
      /\ DOMAIN out[r] = {KeyOf(inst[r].cls)}
      /\ out[r][KeyOf(inst[r].cls)] = inst[r].dict[KeyOf(inst[r].cls)]

C4_Witness ==
  \E r \in Req :
    /\ enc[r] = "fresh"
    /\ inst[r].cls = "EchoResponse"
    /\ out[r] = [text |-> STR(<<128512>>)]

\* C5: shapes are immutable.  The field value of an instance that exists
\* before and after a step is the same after the step, whatever the step is:
\* an encode, a comparison, a decode by another request or an assignment.
C5_Immutable ==
  [][\A r \in Req :
       (/\ phase[r] = "decoded"
        /\ phase'[r] = "decoded"
        /\ ~Decode(r)) => inst'[r].dict = inst[r].dict]_vars

\* C6: encode is idempotent.  An encode of an instance that was encoded
\* before yields the output of the earlier encode, whatever happened to the
\* instance in between, and leaves the instance's field value unchanged.
C6_Idempotent ==
  [][\A r \in Req :
       (Encode(r) /\ enc[r] # "none") =>
         (out'[r] = out[r] /\ inst'[r] = inst[r])]_vars

\* C7: every decode attempt ends in exactly one of two outcomes: an instance
\* of the target shape holding exactly the declared field with the record's
\* text value and no error, or no instance and a single error on the declared
\* field, missing when the key is absent and wrong_type when it is present.
\* Which of the two depends on the record alone, not on earlier failures.
C7_Outcome ==
  [][\A r \in Req :
       DecodeStep(r) =>
         LET k == KeyOf(target[r]) IN
         IF k \in DOMAIN body[r] /\ IsText(body[r][k])
         THEN /\ phase'[r] = "decoded"
              /\ err'[r] = {}
              /\ inst'[r].cls = target[r]
              /\ inst'[r].dict = [f \in {k} |-> body[r][k]]
         ELSE /\ phase'[r] = "failed"
              /\ inst'[r] = NoInstance
              /\ Cardinality(err'[r]) = 1
              /\ \A e \in err'[r] :
                   /\ e.field = k
                   /\ e.reason = IF k \in DOMAIN body[r] THEN "wrong_type"
                                 ELSE "missing"]_vars

C7_Witness ==
  \E a, b \in Req :
    /\ a # b
    /\ phase[a] = "failed"
    /\ err[a] = {[field |-> "text", reason |-> "wrong_type"]}
    /\ phase[b] = "decoded"
    /\ err[b] = {}
    /\ target[b] = "EchoResponse"

C9_StructuralEq ==
  \A a, b \in Req :
    (/\ a # b
     /\ phase[a] = "decoded"
     /\ phase[b] = "decoded"
     /\ inst[a].cls = inst[b].cls) =>
      (model_eq(inst[a], inst[b])
         <=> inst[a].dict[KeyOf(inst[a].cls)] = inst[b].dict[KeyOf(inst[b].cls)])

C9_Witness ==
  \E a, b \in Req :
    /\ a # b
    /\ phase[a] = "decoded"
    /\ phase[b] = "decoded"
    /\ inst[a].cls = inst[b].cls
    /\ inst[a].dict = inst[b].dict
    /\ inst[a].id # inst[b].id
    /\ cmp = "equal"

\* C10: decode ignores the keys it does not declare.  A record that has the
\* required key with a text value decodes successfully whatever other keys
\* it has; the instance holds the declared field only, so that encoding it
\* yields the record restricted to the declared key, which differs from the
\* record whenever the record has other keys.
C10_ExtraIgnored ==
  [][\A r \in Req :
       (/\ DecodeStep(r)
        /\ KeyOf(target[r]) \in DOMAIN body[r]
        /\ IsText(body[r][KeyOf(target[r])])) =>
         /\ phase'[r] = "decoded"
         /\ DOMAIN inst'[r].dict = {KeyOf(target[r])}
         /\ model_dump(inst'[r]) = Restrict(body[r], {KeyOf(target[r])})
         /\ (DOMAIN body[r] # {KeyOf(target[r])}) =>
              model_dump(inst'[r]) # body[r]]_vars

C10_Witness ==
  \E r \in Req :
    /\ enc[r] = "fresh"
    /\ target[r] = "EchoRequest"
    /\ DOMAIN body[r] = {"text", "message", "extra"}
    /\ out[r] = [text |-> body[r]["text"]]
    /\ out[r] # body[r]

====
